---- MODULE Spec2Model ----
(***************************************************************************)
(* Model of EnsemblRestClient (src/ensemblAPI.py): the throttled request   *)
(* dispatcher perform_rest_action, the query methods built on it, and the  *)
(* pure region formatter format_region.                                    *)
(*                                                                         *)
(* Text is modelled as a sequence of string tokens, so that concatenation  *)
(* of a query string, of a URL, or of a region is sequence concatenation.  *)
(* Time is counted in clock ticks, TicksPerSec ticks to the second.        *)
(***************************************************************************)
EXTENDS Integers, Sequences, FiniteSets, TLC

\* ------------------------------------------------------------ bounds
MaxRps == 2            \* reqs_per_sec is drawn from 1..MaxRps
TicksPerSec == 2       \* clock resolution
StartTime == 2         \* time.time() at construction is drawn from 0..StartTime
MaxTime == 5           \* no operation starts after this clock reading
MaxRequests == 4       \* requests that reach the transport in one run
MaxRegionLen == 4      \* length of the region strings given to format_region

\* ------------------------------------------------------------ values
\* Python values handed between the methods: None, a decoded JSON list,
\* a string, or a raised exception.  val is always a sequence of records.
NoneV == [kind |-> "None", val |-> <<>>]
Running == [kind |-> "running", val |-> <<>>]
JsonV(list) == [kind |-> "json", val |-> list]
StrV(s) == [kind |-> "str", val |-> <<[str |-> s]>>]
Raise(exc) == [kind |-> "raise", val |-> <<[exc |-> exc]>>]

\* Python truthiness of a value: None, [] and "" are falsy.
Truthy(v) ==
  \/ v.kind = "json" /\ v.val # <<>>
  \/ v.kind = "str" /\ v.val[1].str # ""

\* ------------------------------------------------------------ __init__
server == "http://rest.ensembl.org/"
InitReqCount == 0
InitLastReq == 0

\* ------------------------------------------------------------ headers
NoHdrs == <<>>
AcceptHdrs == [h \in {"Accept"} |-> "text/x-json"]
OwnTypeHdrs == [h \in {"Content-Type"} |-> "text/x-json"]

\* lines 23-27: hdrs defaults to {} and gets a Content-Type unless it has one
DefaultHdrs(h) ==
  IF "Content-Type" \in DOMAIN h
    THEN h
    ELSE h @@ ("Content-Type" :> "application/json")

\* ------------------------------------------------------------ urlencode
\* A parameter is [key, islist, val]: val is the sequence of the scalars of a
\* list value, or the one scalar of a scalar value.
Param(k, islist, v) == [key |-> k, islist |-> islist, val |-> v]

RECURSIVE JoinTokens(_, _)
\* sep.join(parts), parts a sequence of token sequences
JoinTokens(parts, sep) ==
  IF parts = <<>> THEN <<>>
  ELSE IF Len(parts) = 1 THEN parts[1]
  ELSE parts[1] \o <<sep>> \o JoinTokens(Tail(parts), sep)

\* quote_plus(str(v)) of a list v: "['a', 'b']" percent-encoded
QuotedListRepr(v) ==
  <<"%5B">>
    \o JoinTokens([i \in 1..Len(v) |-> <<"%27", v[i], "%27">>], "%2C+")
    \o <<"%5D">>

\* the key=value pairs one parameter contributes
ParamPairs(p, doseq) ==
  IF p.islist
    THEN IF doseq
           THEN [i \in 1..Len(p.val) |-> <<p.key, "=", p.val[i]>>]
           ELSE << <<p.key, "=">> \o QuotedListRepr(p.val) >>
    ELSE << <<p.key, "=", p.val[1]>> >>

RECURSIVE AllPairs(_, _)
AllPairs(params, doseq) ==
  IF params = <<>> THEN <<>>
  ELSE ParamPairs(params[1], doseq) \o AllPairs(Tail(params), doseq)

\* urllib.parse.urlencode(params, doseq)
urlencode(params, doseq) == JoinTokens(AllPairs(params, doseq), "&")

\* ------------------------------------------------------------ json.loads
\* A response body is a sequence of JSON tokens; the bodies the server model
\* sends are lists of objects.
EmptyBody == <<>>
Bodies ==
  { EmptyBody,
    <<"[", "]">>,
    <<"[", "{id:ENSG1}", "]">>,
    <<"[", "{id:ENSG1}", ",", "{id:ENSG2}", "]">>,
    <<"[", "{name:BRAF}", "]">> }

\* the decoded object of one object token
DecodeObject(tok) ==
  CASE tok = "{id:ENSG1}" -> [id |-> "ENSG1"]
    [] tok = "{id:ENSG2}" -> [id |-> "ENSG2"]
    [] OTHER -> [name |-> "BRAF"]

IsObjectToken(tok) == tok \notin {"[", "]", ","}

\* json.loads(content) of a list body: its objects, in order
json_loads(content) ==
  LET objs == SelectSeq(content, IsObjectToken)
  IN  JsonV([i \in 1..Len(objs) |-> DecodeObject(objs[i])])

\* lines 45-48: data stays None when the body is empty
DecodeContent(content) ==
  IF content # <<>> THEN json_loads(content) ELSE NoneV

\* ------------------------------------------------------------ format_region
Digits == {"0", "1", "2", "3", "4", "5", "6", "7", "8", "9"}

RECURSIVE DigitRun(_, _)
\* length of the longest run of digits of s that starts at position i: [0-9]*
DigitRun(s, i) ==
  IF i <= Len(s) /\ s[i] \in Digits THEN 1 + DigitRun(s, i + 1) ELSE 0

\* :[0-9]*-[0-9]* matched at position j: the position after the match, or 0
TailMatch(s, j) ==
  IF j <= Len(s) /\ s[j] = ":"
    THEN LET k == j + 1 + DigitRun(s, j + 1)
         IN  IF k <= Len(s) /\ s[k] = "-"
               THEN k + 1 + DigitRun(s, k + 1)
               ELSE 0
    ELSE 0

\* ([XY]|[0-9]*):[0-9]*-[0-9]* matched at position i: the position after the
\* match, or 0.  The first alternative is tried first, then the second.
MatchAt(s, i) ==
  LET alt1 == IF i <= Len(s) /\ s[i] \in {"X", "Y"} THEN TailMatch(s, i + 1) ELSE 0
      alt2 == TailMatch(s, i + DigitRun(s, i))
  IN  IF alt1 # 0 THEN alt1 ELSE alt2

\* re.search: the leftmost position with a match, or 0
SearchStart(s) ==
  LET hits == {i \in 1..Len(s) : MatchAt(s, i) # 0}
  IN  IF hits = {} THEN 0 ELSE CHOOSE i \in hits : \A j \in hits : i <= j

\* A region is [kind |-> "str", val |-> <<chars>>] or
\* [kind |-> "list", val |-> <<chrom, start, end>>], each item a sequence of chars.
RegionStr(chars) == [kind |-> "str", val |-> <<chars>>]
RegionList(chrom, start, end) == [kind |-> "list", val |-> <<chrom, start, end>>]

\* format_region: [ok, val]: the string returned, or the exception raised
format_region(region) ==
  IF region.kind = "str"
    THEN LET s == region.val[1]
             i == SearchStart(s)
         IN  IF i = 0
               THEN [ok |-> FALSE, val |-> <<"AttributeError">>]
               ELSE [ok |-> TRUE, val |-> SubSeq(s, i, MatchAt(s, i) - 1)]
    ELSE [ok |-> TRUE,
          val |-> region.val[1] \o <<":">> \o region.val[2] \o <<"-">> \o region.val[3]]

\* ------------------------------------------------------------ state
VARIABLES
  reqs_per_sec,   \* self.reqs_per_sec
  req_count,      \* self.req_count
  last_req,       \* self.last_req, in ticks
  now,            \* time.time(), in ticks
  pc,             \* "idle", or "wait": a request is at the transport
  op,             \* the public method running (or the last one that ran)
  stage,          \* get_variants: "xrefs" or "overlap"
  only_stable_id, \* the flag of get_ensembl_id
  depth,          \* perform_rest_action frames on the stack
  endpoint,       \* local endpoint of the innermost frame, query string appended
  hdrs,           \* local hdrs of the innermost frame
  calls,          \* arguments of each perform_rest_action frame of this public call
  sent,           \* requests that reached the transport in this public call
  got,            \* the responses to them
  stderr,         \* what this public call wrote to sys.stderr
  ret,            \* what the public call returned (or raised)
  throttle,       \* the last rate-limit check: counter on entry, window age, sleep
  window_sent,    \* requests sent since the last throttle checkpoint
  win_start,      \* time the first request of the current window was sent
  nreq,           \* requests sent since construction
  region,         \* the argument of format_region
  formatted       \* its result

vars == <<reqs_per_sec, req_count, last_req, now, pc, op, stage, only_stable_id,
          depth, endpoint, hdrs, calls, sent, got, stderr, ret, throttle,
          window_sent, win_start, nreq, region, formatted>>

regionVars == <<region, formatted>>

Unset == [ok |-> FALSE, val |-> <<"unset">>]

\* lines 16-20, and a clock that reads anything from 0 to StartTime
Init ==
  /\ reqs_per_sec \in 1..MaxRps
  /\ req_count = InitReqCount
  /\ last_req = InitLastReq
  /\ now \in 0..StartTime
  /\ pc = "idle"
  /\ op = "none"
  /\ stage = "none"
  /\ only_stable_id = TRUE
  /\ depth = 0
  /\ endpoint = <<>>
  /\ hdrs = NoHdrs
  /\ calls = <<>>
  /\ sent = <<>>
  /\ got = <<>>
  /\ stderr = <<>>
  /\ ret = NoneV
  /\ throttle = [count |-> 0, nth |-> 0, elapsed |-> 0, slept |-> 0]
  /\ window_sent = 0
  /\ win_start = 0
  /\ nreq = 0
  /\ region = RegionStr(<<>>)
  /\ formatted = Unset

\* ------------------------------------------------------------ perform_rest_action
\* lines 29-30
ResolveEndpoint(ep, params, doseq) ==
  IF params # <<>> THEN ep \o <<"?">> \o urlencode(params, doseq) ELSE ep

\* mutant: the limit is compared with > for >=
ThrottleDueStrict(count, limit) == count > limit

\* line 35
ThrottleDue(count, limit) == count >= limit

\* lines 36-38: the sleep of a throttle checkpoint reached delta ticks after last_req
ThrottleSleep(delta) == IF delta < TicksPerSec THEN TicksPerSec - delta ELSE 0

\* line 56: time.sleep(float(retry) + 1.0), in ticks
RetrySleep(retry) == (retry + 1) * TicksPerSec

\* mutant: the recursive call is given the params again
RetryParamsReapplied(params) == params

\* line 57: the params and doseq the recursive call is given (none: the
\* endpoint already carries the query string)
RetryParams(params) == <<>>
RetryDoseq(doseq) == FALSE

\* mutant: the counter moves whatever the outcome of the request
CountAfterAlways(count, success) == count + 1

\* line 49 sits in the try block: the counter moves on a response read, only
CountAfter(count, success) == IF success THEN count + 1 ELSE count

\* lines 57, 61: the value of the recursive call is dropped, so a frame that
\* retried returns its own data, which is still None
ReturnedToCaller(d, data) == IF d = 1 THEN data ELSE NoneV

\* lines 22-44, up to urlopen: one frame of perform_rest_action entered with
\* the counter at rc and the clock at t, as frame number d
Send(ep, h, params, doseq, rc, t, d, log_calls, log_sent) ==
  LET h2 == DefaultHdrs(h)
      ep2 == ResolveEndpoint(ep, params, doseq)
      due == ThrottleDue(rc, reqs_per_sec)
      sl == IF due THEN ThrottleSleep(t - last_req) ELSE 0
      t2 == t + sl
      first == due \/ window_sent = 0
      start == IF first THEN t2 ELSE win_start
  IN  /\ nreq < MaxRequests
      /\ now' = t2
      /\ last_req' = IF due THEN t2 ELSE last_req
      /\ req_count' = IF due THEN 0 ELSE rc
      /\ endpoint' = ep2
      /\ hdrs' = h2
      /\ calls' = Append(log_calls,
                         [endpoint |-> ep, hdrs |-> h, params |-> params, doseq |-> doseq])
      /\ sent' = Append(log_sent, [url |-> <<server>> \o ep2, hdrs |-> h2, at |-> t2])
      /\ throttle' = [count |-> rc, nth |-> window_sent + 1,
                      elapsed |-> IF window_sent = 0 THEN 0 ELSE t - win_start,
                      slept |-> sl]
      /\ window_sent' = IF due THEN 1 ELSE window_sent + 1
      /\ win_start' = start
      /\ nreq' = nreq + 1
      /\ depth' = d
      /\ pc' = "wait"

\* a public method is called: the logs of the call start empty
Enter(name, flag, st) ==
  /\ pc = "idle"
  /\ now <= MaxTime
  /\ op' = name
  /\ only_stable_id' = flag
  /\ stage' = st
  /\ got' = <<>>
  /\ stderr' = <<>>
  /\ UNCHANGED <<reqs_per_sec, regionVars>>

\* the public method returns v (or raises), the counter at rc and the clock at t
Finish(v, rc, t) ==
  /\ pc' = "idle"
  /\ ret' = v
  /\ req_count' = rc
  /\ now' = t
  /\ depth' = 0
  /\ UNCHANGED <<last_req, endpoint, hdrs, calls, sent, throttle, window_sent,
                 win_start, nreq, stage>>

\* ------------------------------------------------------------ inputs
MaxRetryAfter == 1     \* Retry-After headers carry 0..MaxRetryAfter seconds
ErrorCodes == {404, 500}
Species == {"human"}
Symbols == {"BRAF"}
Identifiers == {"ENSE1"}
FeatureList == <<Param("feature", TRUE, <<"gene", "exon">>)>>
\* the arguments perform_rest_action is called with directly
CallChoices ==
  { [hdrs |-> NoHdrs, params |-> <<>>, doseq |-> FALSE],
    [hdrs |-> OwnTypeHdrs, params |-> FeatureList, doseq |-> FALSE],
    [hdrs |-> AcceptHdrs, params |-> FeatureList, doseq |-> TRUE] }
\* the arguments get_overlap is called with
OverlapChoices ==
  { [region |-> RegionStr(<<"7", ":", "1", "-", "2", "-", "1">>), features |-> <<>>],
    [region |-> RegionList(<<"X">>, <<"1">>, <<"2">>), features |-> <<"gene", "exon">>],
    [region |-> RegionStr(<<"a">>), features |-> <<>>] }

\* ------------------------------------------------------------ public methods
\* lines 22-44: perform_rest_action called by the user of the client
PerformRestAction(ep, h, params, doseq) ==
  /\ Enter("perform_rest_action", only_stable_id, "none")
  /\ ret' = Running
  /\ Send(ep, h, params, doseq, req_count, now, 1, <<>>, <<>>)

\* lines 76-79
XrefsEndpoint(species, symbol) == <<"/xrefs/symbol/", species, "/", symbol>>
XrefsParams == <<Param("object_type", FALSE, <<"gene">>)>>

\* lines 63-79: get_ensembl_id up to its request
GetEnsemblId(species, symbol, flag) ==
  /\ Enter("get_ensembl_id", flag, "none")
  /\ ret' = Running
  /\ Send(XrefsEndpoint(species, symbol), NoHdrs, XrefsParams, FALSE,
          req_count, now, 1, <<>>, <<>>)

\* mutant: genes[0]['id'] is read without the test of line 81
EnsemblIdResultUnguarded(genes, flag) ==
  IF flag
    THEN IF genes.kind # "json" THEN Raise("TypeError")
         ELSE IF genes.val = <<>> THEN Raise("IndexError")
         ELSE IF "id" \in DOMAIN genes.val[1] THEN StrV(genes.val[1].id)
         ELSE Raise("KeyError")
    ELSE IF Truthy(genes) THEN genes ELSE NoneV

\* lines 81-88: what get_ensembl_id makes of the dispatcher's result
EnsemblIdResult(genes, flag) ==
  IF Truthy(genes)
    THEN IF flag
           THEN IF "id" \in DOMAIN genes.val[1]
                  THEN StrV(genes.val[1].id)
                  ELSE Raise("KeyError")
           ELSE genes
    ELSE NoneV

\* lines 90-91: get_variants up to the request of get_ensembl_id
GetVariants(species, symbol) ==
  /\ Enter("get_variants", TRUE, "xrefs")
  /\ ret' = Running
  /\ Send(XrefsEndpoint(species, symbol), NoHdrs, XrefsParams, FALSE,
          req_count, now, 1, <<>>, <<>>)

\* mutant: the overlap request is sent whatever the resolution returned
HasStableIdAlways(stable_id) == TRUE

\* line 93
HasStableId(stable_id) == Truthy(stable_id)

\* lines 94-97; '{0}'.format(None) is 'None'
VariantsEndpoint(stable_id) ==
  <<"/overlap/id/", IF stable_id.kind = "str" THEN stable_id.val[1].str ELSE "None">>
VariantsParams == <<Param("feature", FALSE, <<"variation">>)>>

\* lines 113-118: get_ensembl_info up to its request
LookupEndpoint(identifier, expand) ==
  IF expand
    THEN <<"/lookup/id/", identifier, "?expand=1">>
    ELSE <<"/lookup/id/", identifier, "?">>

GetEnsemblInfo(identifier, expand) ==
  /\ Enter("get_ensembl_info", only_stable_id, "none")
  /\ ret' = Running
  /\ Send(LookupEndpoint(identifier, expand), NoHdrs, <<>>, FALSE,
          req_count, now, 1, <<>>, <<>>)

\* line 137
FeaturesOrDefault(features) == IF features # <<>> THEN features ELSE <<"gene">>

\* lines 137-145: get_overlap up to its request, or to the exception of
\* format_region
GetOverlap(species, reg, features) ==
  LET fr == format_region(reg)
  IN  /\ Enter("get_overlap", only_stable_id, "none")
      /\ IF fr.ok
           THEN /\ ret' = Running
                /\ Send(<<"/overlap/region/", species, "/">> \o fr.val, NoHdrs,
                        <<Param("feature", TRUE, FeaturesOrDefault(features))>>, TRUE,
                        req_count, now, 1, <<>>, <<>>)
           ELSE /\ ret' = Raise(fr.val[1])
                /\ calls' = <<>>
                /\ sent' = <<>>
                /\ UNCHANGED <<req_count, last_req, now, pc, depth, endpoint, hdrs,
                               throttle, window_sent, win_start, nreq>>

\* lines 120-123, 147-150
InfoOrNone(info) == IF Truthy(info) THEN info ELSE NoneV

\* the dispatcher returned v to the public method that called it
Continue(v, rc, t) ==
  IF op = "perform_rest_action" THEN Finish(v, rc, t)
  ELSE IF op = "get_ensembl_id" THEN Finish(EnsemblIdResult(v, only_stable_id), rc, t)
  ELSE IF op = "get_variants" /\ stage = "xrefs"
    THEN LET stable_id == EnsemblIdResult(v, TRUE)
         IN  IF stable_id.kind = "raise" THEN Finish(stable_id, rc, t)
             ELSE IF HasStableId(stable_id)
               THEN /\ Send(VariantsEndpoint(stable_id), NoHdrs, VariantsParams, FALSE,
                            rc, t, 1, calls, sent)
                    /\ stage' = "overlap"
                    /\ ret' = ret
               ELSE Finish(NoneV, rc, t)
  ELSE IF op = "get_variants" THEN Finish(v, rc, t)
  ELSE Finish(InfoOrNone(v), rc, t)

\* ------------------------------------------------------------ the transport answers
Response(code, retry_after, content) ==
  [code |-> code, retry_after |-> retry_after, content |-> content]

\* lines 44-49, 61: the body is read
RespondOK(body) ==
  /\ pc = "wait"
  /\ got' = Append(got, Response(200, -1, body))
  /\ stderr' = stderr
  /\ Continue(ReturnedToCaller(depth, DecodeContent(body)),
              CountAfter(req_count, TRUE), now)
  /\ UNCHANGED <<reqs_per_sec, op, only_stable_id, regionVars>>

\* lines 51-57, 61: HTTP 429; retry_after = -1 when the header is missing
Respond429(retry_after) ==
  /\ pc = "wait"
  /\ got' = Append(got, Response(429, retry_after, EmptyBody))
  /\ stderr' = stderr
  /\ IF retry_after >= 0
       THEN /\ Send(endpoint, hdrs, RetryParams(calls[Len(calls)].params),
                    RetryDoseq(calls[Len(calls)].doseq),
                    CountAfter(req_count, FALSE), now + RetrySleep(retry_after),
                    depth + 1, calls, sent)
            /\ UNCHANGED <<stage, ret>>
       ELSE Continue(NoneV, CountAfter(req_count, FALSE), now)
  /\ UNCHANGED <<reqs_per_sec, op, only_stable_id, regionVars>>

\* line 59
Diagnostic(ep, code) == [text |-> "Request failed for", endpoint |-> ep, code |-> code]

\* lines 58-61: any other HTTP error
RespondError(code) ==
  /\ pc = "wait"
  /\ got' = Append(got, Response(code, -1, EmptyBody))
  /\ stderr' = Append(stderr, Diagnostic(endpoint, code))
  /\ Continue(NoneV, CountAfter(req_count, FALSE), now)
  /\ UNCHANGED <<reqs_per_sec, op, only_stable_id, regionVars>>

\* the clock advances between calls
Tick ==
  /\ pc = "idle"
  /\ now < MaxTime
  /\ now' = now + 1
  /\ UNCHANGED <<reqs_per_sec, req_count, last_req, pc, op, stage, only_stable_id,
                 depth, endpoint, hdrs, calls, sent, got, stderr, ret, throttle,
                 window_sent, win_start, nreq, regionVars>>

Next ==
  \/ \E c \in CallChoices :
       PerformRestAction(<<"/info/ping">>, c.hdrs, c.params, c.doseq)
  \/ \E species \in Species, symbol \in Symbols, flag \in BOOLEAN :
       GetEnsemblId(species, symbol, flag)
  \/ \E species \in Species, symbol \in Symbols : GetVariants(species, symbol)
  \/ \E identifier \in Identifiers, expand \in BOOLEAN : GetEnsemblInfo(identifier, expand)
  \/ \E species \in Species, c \in OverlapChoices :
       GetOverlap(species, c.region, c.features)
  \/ \E body \in Bodies : RespondOK(body)
  \/ \E retry_after \in -1..MaxRetryAfter : Respond429(retry_after)
  \/ \E code \in ErrorCodes : RespondError(code)
  \/ Tick

Spec == Init /\ [][Next]_vars

\* ------------------------------------------------------------ format_region alone
RegionAlphabet == {"X", "7", ":", "-", "a"}
RegionStrings == UNION {[1..n -> RegionAlphabet] : n \in 0..MaxRegionLen}
RegionInputs ==
  {RegionStr(chars) : chars \in RegionStrings}
    \cup {RegionList(c, <<"1", "4">>, e) : c \in {<<"7">>, <<"X">>}, e \in {<<"2">>, <<"2", "0">>}}

\* a client that is handed a region
InitRegion ==
  /\ reqs_per_sec = 1
  /\ req_count = InitReqCount
  /\ last_req = InitLastReq
  /\ now = 0
  /\ pc = "idle"
  /\ op = "none"
  /\ stage = "none"
  /\ only_stable_id = TRUE
  /\ depth = 0
  /\ endpoint = <<>>
  /\ hdrs = NoHdrs
  /\ calls = <<>>
  /\ sent = <<>>
  /\ got = <<>>
  /\ stderr = <<>>
  /\ ret = NoneV
  /\ throttle = [count |-> 0, nth |-> 0, elapsed |-> 0, slept |-> 0]
  /\ window_sent = 0
  /\ win_start = 0
  /\ nreq = 0
  /\ region \in RegionInputs
  /\ formatted = Unset

\* lines 152-166: format_region is applied to the region
FormatRegion ==
  /\ formatted = Unset
  /\ formatted' = format_region(region)
  /\ UNCHANGED <<reqs_per_sec, req_count, last_req, now, pc, op, stage, only_stable_id,
                 depth, endpoint, hdrs, calls, sent, got, stderr, ret, throttle,
                 window_sent, win_start, nreq, region>>

NextRegion == FormatRegion

SpecRegion == InitRegion /\ [][NextRegion]_vars

\* ------------------------------------------------------------ properties
Last(seq) == seq[Len(seq)]

\* response i told the client to retry: a 429 that carries Retry-After
IsRetry(i) == i \in 1..Len(got) /\ got[i].code = 429 /\ got[i].retry_after >= 0

\* a public method has returned to its caller
Returned == pc = "idle" /\ ret # Running /\ got # <<>>

\* C1: a call of perform_rest_action whose first attempt is answered 429 with
\* Retry-After and whose retry is answered 200 with a non-empty body returns
\* the decoded JSON of the retry.
C1_RetryReturnsJson ==
  ( /\ op = "perform_rest_action"
    /\ Returned
    /\ Len(got) = 2
    /\ IsRetry(1)
    /\ got[2].code = 200
    /\ got[2].content # <<>> )
  => ret = json_loads(got[2].content)

\* C2: one call of perform_rest_action sends at most two requests to the
\* transport, whatever the server answers, and has returned once the second
\* is answered.
C2_AtMostTwoRequests ==
  op = "perform_rest_action" =>
    /\ Len(sent) <= 2
    /\ (Len(got) = 2 => pc = "idle")

\* C3: a request that is among the first reqs_per_sec of its window is sent
\* without a throttle sleep, and request number reqs_per_sec + 1 of a window
\* that is less than a second old sleeps for the rest of the second.  (Stated
\* for windows whose earlier requests all succeeded, so that the counter has
\* counted every one of them.)
C3_ThrottleInvariant ==
  (throttle.nth >= 1 /\ throttle.count = throttle.nth - 1) =>
    /\ throttle.nth <= reqs_per_sec => throttle.slept = 0
    /\ (throttle.nth = reqs_per_sec + 1 /\ throttle.elapsed < TicksPerSec)
         => throttle.slept = TicksPerSec - throttle.elapsed

\* a call ended on an HTTP error other than 429
ErrorReturned == Returned /\ Last(got).code \notin {200, 429}

\* what C4 says of every part but the counter: nothing is returned, nothing
\* is raised, one diagnostic names the endpoint and the status, no retry
ErrorReported ==
  /\ ret = NoneV
  /\ Len(stderr) = 1
  /\ Last(sent).url = <<server>> \o stderr[1].endpoint
  /\ stderr[1].code = Last(got).code
  /\ Len(sent) = Len(got)

\* C4 as stated: an HTTP error other than 429 returns nothing, raises nothing,
\* writes one diagnostic with the endpoint and the status code, sends no
\* retry, and leaves req_count as it was when the call was entered.
C4_ErrorLeavesCounter ==
  ErrorReturned => (ErrorReported /\ req_count = throttle.count)

\* C4 as amended: ... and does not count the request: req_count is what it
\* was on entry, or 0 when the call was entered at the limit and the throttle
\* checkpoint reset it.
C4_ErrorNotCounted ==
  ErrorReturned =>
    /\ ErrorReported
    /\ req_count = IF throttle.count >= reqs_per_sec THEN 0 ELSE throttle.count

C4_Witness == ErrorReturned /\ throttle.count >= reqs_per_sec

\* the first attempt of the chain of retries that request i belongs to
ChainStart(i) ==
  CHOOSE j \in 1..i :
    /\ \A k \in j..(i - 1) : IsRetry(k)
    /\ (j = 1 \/ ~IsRetry(j - 1))

\* the URL of a call with its query string encoded once
ResolvedOnce(c) ==
  <<server>> \o c.endpoint
    \o (IF c.params # <<>> THEN <<"?">> \o urlencode(c.params, c.doseq) ELSE <<>>)

\* C5: the retry after a 429 with Retry-After = r is sent at least r + 1
\* seconds after the attempt it repeats, with the URL and the headers of that
\* attempt, and the URL carries the query string of the original call once.
C5_RetryReplaysRequest ==
  \A i \in 2..Len(sent) :
    IsRetry(i - 1) =>
      /\ sent[i].url = sent[i - 1].url
      /\ sent[i].hdrs = sent[i - 1].hdrs
      /\ sent[i].at - sent[i - 1].at >= (got[i - 1].retry_after + 1) * TicksPerSec
      /\ sent[i].url = ResolvedOnce(calls[ChainStart(i)])

C5_Witness ==
  /\ Len(sent) >= 2
  /\ IsRetry(1)
  /\ calls[1].params # <<>>
  /\ calls[1].doseq
  /\ got[1].retry_after = MaxRetryAfter

\* request i of a get_variants call is an /overlap/id request
IsOverlapRequest(i) == sent[i].url[2] = "/overlap/id/"

\* what the symbol request answered with response i resolved to
Resolved(i) ==
  IF got[i].code = 200 /\ (i = 1 \/ ~IsRetry(i - 1))
    THEN EnsemblIdResult(DecodeContent(got[i].content), TRUE)
    ELSE NoneV

\* C6: get_variants sends the symbol request first and an /overlap/id request
\* only after a response to the symbol request that resolved to a stable ID,
\* for that ID; when the resolution gave nothing it sends no overlap request
\* and returns nothing; when the overlap request fails it returns nothing.
C6_VariantsOrder ==
  op = "get_variants" =>
    /\ sent # <<>> => sent[1].url = ResolvedOnce([endpoint |-> XrefsEndpoint("human", "BRAF"),
                                                  params |-> XrefsParams, doseq |-> FALSE])
    /\ \A i \in 1..Len(sent) :
         IsOverlapRequest(i) =>
           \E j \in 1..(i - 1) :
             /\ ~IsOverlapRequest(j)
             /\ Resolved(j).kind = "str"
             /\ sent[i].url = <<server, "/overlap/id/", Resolved(j).val[1].str,
                                "?", "feature", "=", "variation">>
             /\ \A k \in 1..j : ~IsOverlapRequest(k)
             /\ \A k \in (j + 1)..i : IsOverlapRequest(k)
    /\ \A i \in 1..Len(got) :
         (~IsOverlapRequest(i) /\ ~IsRetry(i) /\ Resolved(i) = NoneV) =>
           /\ Len(sent) = i
           /\ pc = "idle"
           /\ ret = NoneV
    /\ (Returned /\ stage = "overlap" /\ Last(got).code # 200) => ret = NoneV

C6_Witness ==
  /\ op = "get_variants"
  /\ Returned
  /\ stage = "overlap"
  /\ Len(sent) = 2
  /\ ret.kind = "json"

\* get_ensembl_id(only_stable_id=True) got an empty list from the dispatcher
EmptyListResolved ==
  /\ op = "get_ensembl_id"
  /\ only_stable_id
  /\ Returned
  /\ Len(got) = 1
  /\ got[1].code = 200
  /\ got[1].content # <<>>
  /\ json_loads(got[1].content).val = <<>>

\* C7 as stated: get_ensembl_id with only_stable_id=True fails with an
\* index or key error when the dispatcher returns an empty list.
C7_EmptyListRaises == EmptyListResolved => ret.kind = "raise"

\* C7 as amended: get_ensembl_id with only_stable_id=True returns nothing,
\* and raises nothing, when the dispatcher returns an empty list.
C7_EmptyListReturnsNone == EmptyListResolved => ret = NoneV

C7_Witness == EmptyListResolved

\* s holds a chromosome token (X, Y or digits), ":", a numeric start, "-" and
\* a numeric end, in a row
ContainsRegion(s) ==
  \E i \in 1..Len(s), j \in 1..Len(s), k \in 1..Len(s), e \in 1..Len(s) :
    /\ i < j /\ j + 1 < k /\ k < e
    /\ (\A x \in i..(j - 1) : s[x] \in Digits) \/ (j = i + 1 /\ s[i] \in {"X", "Y"})
    /\ s[j] = ":"
    /\ \A x \in (j + 1)..(k - 1) : s[x] \in Digits
    /\ s[k] = "-"
    /\ \A x \in (k + 1)..e : s[x] \in Digits

C9_BurstBounded == window_sent <= reqs_per_sec

\* a step that passes a throttle checkpoint
Checkpoint ==
  /\ nreq' = nreq + 1
  /\ throttle'.count >= reqs_per_sec
  /\ last_req' = now'

\* a step that reads a successful response
ReadsResponse == Len(got') = Len(got) + 1 /\ Last(got').code = 200

\* C10: req_count stays within 0..reqs_per_sec, it changes only by +1 on a
\* successful response or by a reset to 0 at a throttle checkpoint, and
\* last_req changes only at a throttle checkpoint.
C10_CounterInvariant ==
  /\ [](req_count \in 0..reqs_per_sec)
  /\ [][ /\ req_count' # req_count =>
              \/ req_count' = req_count + 1 /\ ReadsResponse
              \/ req_count' = 0 /\ Checkpoint
         /\ last_req' # last_req => (Checkpoint /\ req_count' = 0) ]_vars

C10_Witness ==
  /\ pc = "idle"
  /\ req_count = reqs_per_sec
  /\ last_req > 0
  /\ nreq = MaxRequests

====
